---- MODULE Spec2Model ----
(***************************************************************************)
(* Model of animal_multilevel_inheritance_annotated.py: the class          *)
(* hierarchy Animal <- Dog, Animal <- Reptile <- Lizard / Snake, and the   *)
(* unrelated class Bacterium.  An instance is its class together with its  *)
(* instance dictionary; private attributes carry their mangled names       *)
(* (self.__tail written inside class Snake is the key "_Snake__tail").     *)
(***************************************************************************)
EXTENDS Integers, Sequences, FiniteSets, TLC

\* ---------------------------------------------------------------- bounds
\* Largest leg count a caller passes.
MaxLegs == 3

\* The two variables of the calling script that hold instances: one is the
\* instance a call is made on, the other a bystander.
Slots == {"a", "b"}
\* The leg counts callers pass: the largest one and, as nothing in the code
\* validates a leg count, a negative one.  The defaults 0 and 4 come from the
\* constructors.
LegArgs == {0 - 1, MaxLegs}
Names == {"George", "Fido"}

\* An argument of a call: <<>> when the caller leaves it out, <<v>> otherwise.
Opt(S) == {<<>>} \cup {<<v>> : v \in S}

\* ------------------------------------------------------- program constants
DogDefaultLegs == 4
SnakeDefaultLegs == 0

\* The value of the expression `bool` (the class object), which is neither
\* True nor False.  Python booleans stored in eats are written by their repr.
BoolClass == "<class 'bool'>"
PyBool(b) == IF b THEN "True" ELSE "False"

VARIABLES heap, last, raised
vars == <<heap, last, raised>>

\* ------------------------------------------------------------ class table
ClassNames == {"Animal", "Dog", "Reptile", "Lizard", "Snake", "Bacterium"}

\* Variant: class Lizard(Animal) in place of class Lizard(Reptile).
Bases_LizardFromAnimal ==
  [Animal |-> <<>>, Dog |-> <<"Animal">>, Reptile |-> <<"Animal">>,
   Lizard |-> <<"Animal">>, Snake |-> <<"Reptile">>, Bacterium |-> <<>>]

\* class X(Base): the base of each class statement (<<>>: no base given).
Bases ==
  [Animal |-> <<>>, Dog |-> <<"Animal">>, Reptile |-> <<"Animal">>,
   Lizard |-> <<"Reptile">>, Snake |-> <<"Reptile">>, Bacterium |-> <<>>]

\* The names each class body defines.
ClassDict ==
  [Animal |-> {"multicellular", "__init__", "legs", "tail"},
   Dog |-> {"__init__", "bark", "name"},
   Reptile |-> {"__init__", "scales"},
   Lizard |-> {},
   Snake |-> {"__init__", "venom", "tail"},
   Bacterium |-> {"multicellular"}]

\* Variant: Bacterium.multicellular = True.
ClassAttr_AllTrue == [Animal |-> TRUE, Bacterium |-> TRUE]

\* Values of the class attribute multicellular.
ClassAttr == [Animal |-> TRUE, Bacterium |-> FALSE]

RECURSIVE Mro(_)
Mro(c) == <<c>> \o (IF Bases[c] = <<>> THEN <<>> ELSE Mro(Bases[c][1]))

\* First class of the sequence m that defines the member, "" when none does.
RECURSIVE Lookup(_, _)
Lookup(m, member) ==
  IF m = <<>> THEN ""
  ELSE IF member \in ClassDict[Head(m)] THEN Head(m)
  ELSE Lookup(Tail(m), member)

\* cls.__mro__, fixed when the class statement runs.
MroOf == [c \in ClassNames |-> Mro(c)]

Members == UNION {ClassDict[c] : c \in ClassNames}

\* The class that type(o).member comes from, for every class and member.
Owner == [c \in ClassNames |-> [m \in Members |-> Lookup(MroOf[c], m)]]

\* type(o).member
Resolve(c, member) == Owner[c][member]

\* super(c, o).member: the lookup starts after c in the MRO of o's class.
RECURSIVE After(_, _)
After(m, c) ==
  IF m = <<>> THEN <<>>
  ELSE IF Head(m) = c THEN Tail(m)
  ELSE After(Tail(m), c)

SuperOwner ==
  [c \in ClassNames |->
    [k \in ClassNames |-> [m \in Members |-> Lookup(After(MroOf[k], c), m)]]]

SuperResolve(c, objcls, member) == SuperOwner[c][objcls][member]

\* ------------------------------------------------------------- instances
EmptyDict == <<>>
NoObj == [cls |-> "", dict |-> EmptyDict]

\* self.a = v
SetAttr(d, a, v) == (a :> v) @@ d
HasAttr(d, a) == a \in DOMAIN d

\* ----------------------------------------------------------- constructors
\* Variant: self.eats = False in place of self.eats = bool.
AnimalInit_EatsFalse(d, legs, tail) ==
  LET d1 == SetAttr(d, "_Animal__legs", legs)
      d2 == SetAttr(d1, "_Animal__tail", tail)
  IN  SetAttr(d2, "eats", PyBool(FALSE))

AnimalInit(d, legs, tail) ==
  LET d1 == SetAttr(d, "_Animal__legs", legs)
      d2 == SetAttr(d1, "_Animal__tail", tail)
  IN  SetAttr(d2, "eats", BoolClass)

\* Variant: Animal.__init__(self, 4, True), the arguments dropped.
DogInit_DropsArgs(d, name, legs, tail) ==
  LET d1 == SetAttr(d, "_Dog__name", name)
      d2 == SetAttr(d1, "_Dog__sound", "woof")
  IN  AnimalInit(d2, DogDefaultLegs, TRUE)

DogInit(d, name, legs, tail) ==
  LET d1 == SetAttr(d, "_Dog__name", name)
      d2 == SetAttr(d1, "_Dog__sound", "woof")
  IN  AnimalInit(d2, legs, tail)

ReptileInit(d, legs, tail) ==
  LET d1 == SetAttr(d, "_Reptile__scales", TRUE)
  IN  AnimalInit(d1, legs, tail)

\* Variant: super().__init__(legs, tail), the caller's tail forwarded.
SnakeInit_ForwardsTail(d, legs, tail) ==
  LET d1 == SetAttr(d, "_Snake__venom", FALSE)
      d2 == SetAttr(d1, "_Snake__tail", TRUE)
  IN  ReptileInit(d2, legs, tail)

SnakeInit(d, legs, tail) ==
  LET d1 == SetAttr(d, "_Snake__venom", FALSE)
      d2 == SetAttr(d1, "_Snake__tail", TRUE)
  IN  ReptileInit(d2, legs, d2["_Snake__tail"])

\* Binding of the call's arguments to each __init__ signature.  The result is
\* <<>> when the call raises TypeError (a required argument is missing) and
\* <<d>> with the new instance dictionary otherwise.
AnimalNew(legsArg, tailArg) ==
  IF legsArg = <<>> \/ tailArg = <<>> THEN <<>>
  ELSE <<AnimalInit(EmptyDict, legsArg[1], tailArg[1])>>

DogNew(nameArg, legsArg, tailArg) ==
  IF nameArg = <<>> THEN <<>>
  ELSE <<DogInit(EmptyDict, nameArg[1],
                 IF legsArg = <<>> THEN DogDefaultLegs ELSE legsArg[1],
                 IF tailArg = <<>> THEN TRUE ELSE tailArg[1])>>

\* Variant: def __init__(self, legs=4, tail=True).
ReptileNew_DefaultLegs(legsArg, tailArg) ==
  <<ReptileInit(EmptyDict,
                IF legsArg = <<>> THEN DogDefaultLegs ELSE legsArg[1],
                IF tailArg = <<>> THEN TRUE ELSE tailArg[1])>>

ReptileNew(legsArg, tailArg) ==
  IF legsArg = <<>> THEN <<>>
  ELSE <<ReptileInit(EmptyDict, legsArg[1],
                     IF tailArg = <<>> THEN TRUE ELSE tailArg[1])>>

SnakeNew(legsArg, tailArg) ==
  <<SnakeInit(EmptyDict,
              IF legsArg = <<>> THEN SnakeDefaultLegs ELSE legsArg[1],
              IF tailArg = <<>> THEN TRUE ELSE tailArg[1])>>

\* cls(...): the __init__ found along the MRO runs; a class without one
\* (Bacterium) gets an empty instance.
Construct(cls, nameArg, legsArg, tailArg) ==
  LET owner == Resolve(cls, "__init__") IN
  CASE owner = "Animal" -> AnimalNew(legsArg, tailArg)
    [] owner = "Dog" -> DogNew(nameArg, legsArg, tailArg)
    [] owner = "Reptile" -> ReptileNew(legsArg, tailArg)
    [] owner = "Snake" -> SnakeNew(legsArg, tailArg)
    [] OTHER -> <<EmptyDict>>

\* ---------------------------------------------------------------- getters
AnimalLegs(d) == d["_Animal__legs"]

AnimalTail(d) == IF d["_Animal__tail"] = TRUE THEN "has" ELSE "does not have"

SnakeTail(d) == IF d["_Snake__tail"] = TRUE THEN "is mostly" ELSE "must be dead"

ReptileScales(d) ==
  IF d["_Reptile__scales"] = TRUE THEN "has" ELSE "does not have"

\* Variant: the two descriptions exchanged.
SnakeVenom_Swapped(d) == IF d["_Snake__venom"] = FALSE THEN "is" ELSE "is not"

SnakeVenom(d) == IF d["_Snake__venom"] = FALSE THEN "is not" ELSE "is"

DogName(d) == d["_Dog__name"]

\* o.legs, o.tail, ... as the attribute lookup on an instance o resolves them;
\* "AttributeError" when no class of the MRO defines the property.
Legs(o) ==
  IF Resolve(o.cls, "legs") = "Animal" THEN AnimalLegs(o.dict)
  ELSE "AttributeError"

TailOf(o) ==
  LET owner == Resolve(o.cls, "tail") IN
  CASE owner = "Snake" -> SnakeTail(o.dict)
    [] owner = "Animal" -> AnimalTail(o.dict)
    [] OTHER -> "AttributeError"

\* super(Snake, o).tail
ParentTail(o) ==
  LET owner == SuperResolve("Snake", o.cls, "tail") IN
  CASE owner = "Animal" -> AnimalTail(o.dict)
    [] OTHER -> "AttributeError"

Scales(o) ==
  IF Resolve(o.cls, "scales") = "Reptile" THEN ReptileScales(o.dict)
  ELSE "AttributeError"

Venom(o) ==
  IF Resolve(o.cls, "venom") = "Snake" THEN SnakeVenom(o.dict)
  ELSE "AttributeError"

Name(o) ==
  IF Resolve(o.cls, "name") = "Dog" THEN DogName(o.dict) ELSE "AttributeError"

Eats(o) == IF HasAttr(o.dict, "eats") THEN o.dict["eats"] ELSE "AttributeError"

\* o.multicellular: an instance attribute of that name would shadow the class
\* attribute.
Multicellular(o) ==
  IF HasAttr(o.dict, "multicellular") THEN o.dict["multicellular"]
  ELSE ClassAttr[Resolve(o.cls, "multicellular")]

\* ---------------------------------------------------------------- setters
\* Variant: a setter that clamps a negative count to 0.
AnimalSetLegs_Clamped(d, legs) ==
  SetAttr(d, "_Animal__legs", IF legs < 0 THEN 0 ELSE legs)

AnimalSetLegs(d, legs) == SetAttr(d, "_Animal__legs", legs)

AnimalSetTail(d, tail) == SetAttr(d, "_Animal__tail", tail)

\* Variant: the setter writes the flag Animal keeps (no shadow field).
SnakeSetTail_Inherited(d, tail) == SetAttr(d, "_Animal__tail", tail)

\* Variant: the setter writes the Snake's flag and Animal's flag as well.
SnakeSetTail_Both(d, tail) ==
  SetAttr(SetAttr(d, "_Snake__tail", tail), "_Animal__tail", tail)

SnakeSetTail(d, tail) == SetAttr(d, "_Snake__tail", tail)

ReptileSetScales(d, scales) == SetAttr(d, "_Reptile__scales", scales)

SnakeSetVenom(d, has_venom) == SetAttr(d, "_Snake__venom", has_venom)

DogSetName(d, name) == SetAttr(d, "_Dog__name", name)

AssignEats(d, b) == SetAttr(d, "eats", PyBool(b))

DogBark(d) == d["_Dog__sound"]

\* ------------------------------------------------------------ call record
\* The call being made: its operation, the variable and class of the instance
\* it is made on, its arguments, and what it printed.
Call(op, i, cls, nameArg, legsArg, flagArg, out) ==
  [op |-> op, i |-> i, cls |-> cls, name |-> nameArg, legs |-> legsArg,
   flag |-> flagArg, out |-> out]

IsAnimal(o) == o # NoObj /\ Resolve(o.cls, "legs") = "Animal"

\* ------------------------------------------- calls, as changes of the heap
\* x = cls(...): x is bound only when the constructor returns.
CallNew(h, i, cls, nameArg, legsArg, tailArg) ==
  LET r == Construct(cls, nameArg, legsArg, tailArg) IN
  IF Len(r) = 0 THEN h ELSE [h EXCEPT ![i] = [cls |-> cls, dict |-> r[1]]]

Raises(cls, nameArg, legsArg, tailArg) ==
  IF Len(Construct(cls, nameArg, legsArg, tailArg)) = 0 THEN "TypeError"
  ELSE "none"

Put(h, i, d) == [h EXCEPT ![i] = [cls |-> h[i].cls, dict |-> d]]

\* x.legs = v
CallSetLegs(h, i, v) == Put(h, i, AnimalSetLegs(h[i].dict, v))

\* x.tail = b: the setter of the first class of the MRO that defines tail.
CallSetTail(h, i, b) ==
  Put(h, i, IF Resolve(h[i].cls, "tail") = "Snake"
            THEN SnakeSetTail(h[i].dict, b)
            ELSE AnimalSetTail(h[i].dict, b))

\* x.scales = b
CallSetScales(h, i, b) == Put(h, i, ReptileSetScales(h[i].dict, b))

\* x.venom = b
CallSetVenom(h, i, b) == Put(h, i, SnakeSetVenom(h[i].dict, b))

\* x.name = n
CallSetName(h, i, n) == Put(h, i, DogSetName(h[i].dict, n))

\* x.eats = b
CallSetEats(h, i, b) == Put(h, i, AssignEats(h[i].dict, b))

\* x.bark() prints and returns; the heap stays as it is.
CallBark(h, i) == h

Init ==
  /\ heap = [i \in Slots |-> NoObj]
  /\ last = Call("", "", "", <<>>, <<>>, <<>>, <<>>)
  /\ raised = "none"

\* ---------------------------------------------------------------- actions
New(i, cls, nameArg, legsArg, tailArg) ==
  /\ heap[i] = NoObj
  /\ heap' = CallNew(heap, i, cls, nameArg, legsArg, tailArg)
  /\ raised' = Raises(cls, nameArg, legsArg, tailArg)
  /\ last' = Call("new", i, cls, nameArg, legsArg, tailArg, <<>>)

NewAnimal(i, legsArg, tailArg) == New(i, "Animal", <<>>, legsArg, tailArg)

NewDog(i, nameArg, legsArg, tailArg) == New(i, "Dog", nameArg, legsArg, tailArg)

NewReptile(i, legsArg, tailArg) == New(i, "Reptile", <<>>, legsArg, tailArg)

NewLizard(i, legsArg, tailArg) == New(i, "Lizard", <<>>, legsArg, tailArg)

NewSnake(i, legsArg, tailArg) == New(i, "Snake", <<>>, legsArg, tailArg)

NewBacterium(i) == New(i, "Bacterium", <<>>, <<>>, <<>>)

SetLegs(i, v) ==
  /\ heap[i] # NoObj
  /\ Resolve(heap[i].cls, "legs") = "Animal"
  /\ heap' = CallSetLegs(heap, i, v)
  /\ last' = Call("legs", i, heap[i].cls, <<>>, <<v>>, <<>>, <<>>)
  /\ raised' = "none"

SetTail(i, b) ==
  /\ heap[i] # NoObj
  /\ Resolve(heap[i].cls, "tail") # ""
  /\ heap' = CallSetTail(heap, i, b)
  /\ last' = Call("tail", i, heap[i].cls, <<>>, <<>>, <<b>>, <<>>)
  /\ raised' = "none"

SetScales(i, b) ==
  /\ heap[i] # NoObj
  /\ Resolve(heap[i].cls, "scales") = "Reptile"
  /\ heap' = CallSetScales(heap, i, b)
  /\ last' = Call("scales", i, heap[i].cls, <<>>, <<>>, <<b>>, <<>>)
  /\ raised' = "none"

SetVenom(i, b) ==
  /\ heap[i] # NoObj
  /\ Resolve(heap[i].cls, "venom") = "Snake"
  /\ heap' = CallSetVenom(heap, i, b)
  /\ last' = Call("venom", i, heap[i].cls, <<>>, <<>>, <<b>>, <<>>)
  /\ raised' = "none"

SetName(i, n) ==
  /\ heap[i] # NoObj
  /\ Resolve(heap[i].cls, "name") = "Dog"
  /\ heap' = CallSetName(heap, i, n)
  /\ last' = Call("name", i, heap[i].cls, <<n>>, <<>>, <<>>, <<>>)
  /\ raised' = "none"

SetEats(i, b) ==
  /\ IsAnimal(heap[i])
  /\ heap' = CallSetEats(heap, i, b)
  /\ last' = Call("eats", i, heap[i].cls, <<>>, <<>>, <<b>>, <<>>)
  /\ raised' = "none"

Bark(i) ==
  /\ heap[i] # NoObj
  /\ Resolve(heap[i].cls, "bark") = "Dog"
  /\ heap' = CallBark(heap, i)
  /\ last' = Call("bark", i, heap[i].cls, <<>>, <<>>, <<>>,
                  <<DogBark(heap[i].dict)>>)
  /\ raised' = "none"

Next ==
  \/ \E i \in Slots, l \in Opt(LegArgs), t \in Opt(BOOLEAN) : NewAnimal(i, l, t)
  \/ \E i \in Slots, n \in Opt(Names), l \in Opt(LegArgs), t \in Opt(BOOLEAN) :
       NewDog(i, n, l, t)
  \/ \E i \in Slots, l \in Opt(LegArgs), t \in Opt(BOOLEAN) : NewReptile(i, l, t)
  \/ \E i \in Slots, l \in Opt(LegArgs), t \in Opt(BOOLEAN) : NewLizard(i, l, t)
  \/ \E i \in Slots, l \in Opt(LegArgs), t \in Opt(BOOLEAN) : NewSnake(i, l, t)
  \/ \E i \in Slots : NewBacterium(i)
  \/ \E i \in Slots, v \in LegArgs : SetLegs(i, v)
  \/ \E i \in Slots, b \in BOOLEAN : SetTail(i, b)
  \/ \E i \in Slots, b \in BOOLEAN : SetScales(i, b)
  \/ \E i \in Slots, b \in BOOLEAN : SetVenom(i, b)
  \/ \E i \in Slots, n \in Names : SetName(i, n)
  \/ \E i \in Slots, b \in BOOLEAN : SetEats(i, b)
  \/ \E i \in Slots : Bark(i)

Spec == Init /\ [][Next]_vars

\* ----------------------------------------------- a Reptile beside a Lizard
\* The same calls made on a Reptile (variable "a") and on a Lizard (variable
\* "b"): every call is made on the Reptile first and then, with the same
\* arguments, on the Lizard.
InSync == last.i # "a"

Echo(op, legsArg, flagArg) ==
  /\ last.i = "a"
  /\ last.op = op
  /\ last.legs = legsArg
  /\ last.flag = flagArg

Turn(i, op, legsArg, flagArg) ==
  IF i = "a" THEN InSync ELSE Echo(op, legsArg, flagArg)

PairNewReptile(legsArg, tailArg) ==
  /\ InSync
  /\ NewReptile("a", legsArg, tailArg)

PairNewLizard(legsArg, tailArg) ==
  /\ Echo("new", legsArg, tailArg)
  /\ NewLizard("b", legsArg, tailArg)

PairSetLegs(i, v) == Turn(i, "legs", <<v>>, <<>>) /\ SetLegs(i, v)

PairSetTail(i, b) == Turn(i, "tail", <<>>, <<b>>) /\ SetTail(i, b)

PairSetScales(i, b) == Turn(i, "scales", <<>>, <<b>>) /\ SetScales(i, b)

PairSetEats(i, b) == Turn(i, "eats", <<>>, <<b>>) /\ SetEats(i, b)

PairNext ==
  \/ \E l \in Opt(LegArgs), t \in Opt(BOOLEAN) : PairNewReptile(l, t)
  \/ \E l \in Opt(LegArgs), t \in Opt(BOOLEAN) : PairNewLizard(l, t)
  \/ \E i \in Slots, v \in LegArgs : PairSetLegs(i, v)
  \/ \E i \in Slots, b \in BOOLEAN : PairSetTail(i, b)
  \/ \E i \in Slots, b \in BOOLEAN : PairSetScales(i, b)
  \/ \E i \in Slots, b \in BOOLEAN : PairSetEats(i, b)

PairSpec == Init /\ [][PairNext]_vars

\* ================================================================ claims
\* The instance in variable i has just been constructed by the last call.
Fresh(i) == last.op = "new" /\ last.i = i /\ raised = "none" /\ heap[i] # NoObj

\* The last call set the property op of the instance in variable i.
JustSet(i, op) == last.op = op /\ last.i = i

IsSnake(o) == o # NoObj /\ o.cls = "Snake"

\* C1: on a Snake, s.tail and super(Snake, s).tail read two independent
\* flags: a fresh Snake reports "is mostly"; after a set through the Snake's
\* tail setter s.tail reports "is mostly" when the value set was true and
\* "must be dead" when it was false; super(Snake, s).tail reports "has" in
\* every reachable state.
SnakeTailFlagsIndependent ==
  \A i \in Slots :
    IsSnake(heap[i]) =>
      /\ ParentTail(heap[i]) = "has"
      /\ Fresh(i) => TailOf(heap[i]) = "is mostly"
      /\ JustSet(i, "tail") =>
           TailOf(heap[i]) =
             (IF last.flag[1] THEN "is mostly" ELSE "must be dead")

SnakeTailSetFalseReached ==
  \E i \in Slots :
    /\ IsSnake(heap[i])
    /\ JustSet(i, "tail") /\ last.flag = <<FALSE>>
    /\ TailOf(heap[i]) = "must be dead"
    /\ ParentTail(heap[i]) = "has"

\* C2: Snake construction ignores the caller's tail argument: whatever legs
\* and tail are passed, the new Snake's own flag is true ("is mostly"), the
\* parent-level flag is true ("has"), and legs is the value passed, 0 when
\* none is.
SnakeConstructionIgnoresTail ==
  \A i \in Slots :
    last.op = "new" /\ last.i = i /\ last.cls = "Snake" =>
      /\ raised = "none"
      /\ IsSnake(heap[i])
      /\ TailOf(heap[i]) = "is mostly"
      /\ ParentTail(heap[i]) = "has"
      /\ Legs(heap[i]) =
           (IF last.legs = <<>> THEN SnakeDefaultLegs ELSE last.legs[1])

SnakeBuiltWithTailFalseReached ==
  \E i \in Slots :
    /\ Fresh(i) /\ last.cls = "Snake"
    /\ last.flag = <<FALSE>> /\ last.legs = <<MaxLegs>>
    /\ TailOf(heap[i]) = "is mostly"

\* C3: eats has three states.  On a fresh Animal, Dog, Reptile, Lizard or
\* Snake it reads as the unset marker, equal to neither True nor False; after
\* an assignment of a boolean it reads as that boolean; and no call other
\* than an assignment to eats changes what it reads as.
EatsState ==
  \A i \in Slots :
    IsAnimal(heap[i]) =>
      /\ Fresh(i) =>
           /\ Eats(heap[i]) = BoolClass
           /\ Eats(heap[i]) # PyBool(TRUE)
           /\ Eats(heap[i]) # PyBool(FALSE)
      /\ JustSet(i, "eats") => Eats(heap[i]) = PyBool(last.flag[1])

EatsStep ==
  \A i \in Slots :
    IsAnimal(heap[i]) /\ ~(last'.op = "eats" /\ last'.i = i) =>
      Eats(heap'[i]) = Eats(heap[i])

EatsThreeState == []EatsState /\ [][EatsStep]_vars

EatsUnsetBesideSetReached ==
  \E i, j \in Slots :
    /\ i # j
    /\ IsAnimal(heap[i]) /\ Eats(heap[i]) = PyBool(FALSE)
    /\ IsAnimal(heap[j]) /\ Fresh(j) /\ Eats(heap[j]) = BoolClass

\* C4: in every reachable state multicellular reads True on every Animal,
\* Dog, Reptile, Lizard and Snake instance and False on every Bacterium
\* instance.
MulticellularFixed ==
  \A i \in Slots :
    heap[i] # NoObj => Multicellular(heap[i]) = (heap[i].cls # "Bacterium")

BacteriumBesideChangedSnakeReached ==
  \E i, j \in Slots :
    /\ heap[i] # NoObj /\ heap[i].cls = "Bacterium"
    /\ Multicellular(heap[i]) = FALSE
    /\ IsSnake(heap[j]) /\ JustSet(j, "eats")
    /\ Venom(heap[j]) = "is" /\ TailOf(heap[j]) = "must be dead"
    /\ Multicellular(heap[j]) = TRUE

\* C5: a Lizard behaves as a Reptile: after the same constructor call and
\* the same sets on both, either both constructions failed or every accessor
\* (legs, tail, scales, eats, multicellular) returns the same on both.
LizardBehavesAsReptile ==
  InSync =>
    LET r == heap["a"]
        l == heap["b"]
    IN  /\ (r = NoObj) <=> (l = NoObj)
        /\ r # NoObj /\ l # NoObj =>
             /\ Legs(l) = Legs(r)
             /\ TailOf(l) = TailOf(r)
             /\ Scales(l) = Scales(r)
             /\ Eats(l) = Eats(r)
             /\ Multicellular(l) = Multicellular(r)

LizardAfterSetsReached ==
  /\ InSync
  /\ heap["a"] # NoObj /\ heap["a"].cls = "Reptile"
  /\ heap["b"] # NoObj /\ heap["b"].cls = "Lizard"
  /\ JustSet("b", "tail")
  /\ TailOf(heap["b"]) = "does not have"
  /\ Scales(heap["b"]) = "does not have"
  /\ Eats(heap["b"]) = PyBool(TRUE)
  /\ Legs(heap["b"]) = MaxLegs

\* C6: Dog construction hands legs and tail to Animal with defaults 4 and
\* True: legs reads as the value passed, 4 when none is; tail reads "has"
\* when the value passed is true or none is passed, "does not have" when it
\* is false; name reads as the name given.
DogConstruction ==
  \A i \in Slots :
    Fresh(i) /\ last.cls = "Dog" =>
      /\ Legs(heap[i]) =
           (IF last.legs = <<>> THEN DogDefaultLegs ELSE last.legs[1])
      /\ TailOf(heap[i]) =
           (IF last.flag = <<>> \/ last.flag[1] THEN "has"
            ELSE "does not have")
      /\ Name(heap[i]) = last.name[1]

DogWithThreeLegsNoTailReached ==
  \E i \in Slots :
    /\ Fresh(i) /\ last.cls = "Dog"
    /\ last.legs = <<MaxLegs>> /\ last.flag = <<FALSE>>
    /\ Legs(heap[i]) = MaxLegs
    /\ TailOf(heap[i]) = "does not have"

\* C7: a fresh Snake's venom reads "is not"; after a venom set it reads "is"
\* when the value set was true and "is not" when it was false.
SnakeVenomDescription ==
  \A i \in Slots :
    IsSnake(heap[i]) =>
      /\ Fresh(i) => Venom(heap[i]) = "is not"
      /\ JustSet(i, "venom") =>
           Venom(heap[i]) = (IF last.flag[1] THEN "is" ELSE "is not")

SnakeVenomSetTrueReached ==
  \E i \in Slots :
    /\ IsSnake(heap[i])
    /\ JustSet(i, "venom") /\ last.flag = <<TRUE>>
    /\ Venom(heap[i]) = "is"

\* C8: constructing a Reptile or a Lizard without a leg count fails: the
\* call raises, no instance is bound, no default leg count is used.  With a
\* leg count and no tail the call succeeds and tail reads "has".
ReptileNeedsLegs ==
  \A i \in Slots :
    last.op = "new" /\ last.i = i /\ last.cls \in {"Reptile", "Lizard"} =>
      IF last.legs = <<>>
      THEN raised = "TypeError" /\ heap[i] = NoObj
      ELSE /\ raised = "none"
           /\ heap[i] # NoObj
           /\ heap[i].cls = last.cls
           /\ Legs(heap[i]) = last.legs[1]
           /\ last.flag = <<>> => TailOf(heap[i]) = "has"

LizardWithoutLegsReached ==
  \E i \in Slots :
    /\ last.op = "new" /\ last.i = i /\ last.cls = "Lizard"
    /\ last.legs = <<>>
    /\ raised = "TypeError"

\* C9 as stated: in every reachable state the legs getter of every
\* Animal-derived instance returns a non-negative integer.
LegsNonNegative ==
  \A i \in Slots : IsAnimal(heap[i]) => Legs(heap[i]) >= 0

\* C9 as amended: legs is passed through unvalidated.  After construction
\* the getter returns the leg count passed (the class default when none is
\* passed), after a set it returns the value set, negative values included;
\* in every reachable state it returns one of the values passed or a default.
LegsPassThrough ==
  \A i \in Slots :
    IsAnimal(heap[i]) =>
      /\ Legs(heap[i]) \in LegArgs \cup {DogDefaultLegs, SnakeDefaultLegs}
      /\ Fresh(i) /\ last.legs # <<>> => Legs(heap[i]) = last.legs[1]
      /\ JustSet(i, "legs") => Legs(heap[i]) = last.legs[1]
      /\ (Fresh(i) /\ last.legs # <<>>) \/ JustSet(i, "legs") =>
           (Legs(heap[i]) >= 0 <=> last.legs[1] >= 0)

NegativeLegsSetReached ==
  \E i \in Slots :
    /\ IsAnimal(heap[i])
    /\ JustSet(i, "legs") /\ last.legs = <<0 - 1>>
    /\ Legs(heap[i]) = 0 - 1

\* C10: a set of legs, tail, scales, venom, name or eats changes at most the
\* one field it names on the one instance it is called on: every other
\* accessor of that instance (super(Snake, s).tail included) and every other
\* instance stay as they were; bark changes no field.
Accessors ==
  {"legs", "tail", "parent_tail", "scales", "venom", "name", "eats",
   "multicellular"}

View(o, acc) ==
  CASE acc = "legs" -> Legs(o)
    [] acc = "tail" -> TailOf(o)
    [] acc = "parent_tail" -> ParentTail(o)
    [] acc = "scales" -> Scales(o)
    [] acc = "venom" -> Venom(o)
    [] acc = "name" -> Name(o)
    [] acc = "eats" -> Eats(o)
    [] acc = "multicellular" -> Multicellular(o)

FrameStep ==
  /\ \A j \in Slots \ {last'.i} : heap'[j] = heap[j]
  /\ last'.op \in {"legs", "tail", "scales", "venom", "name", "eats"} =>
       LET o == heap[last'.i]
           p == heap'[last'.i]
       IN  /\ p.cls = o.cls
           /\ DOMAIN p.dict = DOMAIN o.dict
           /\ Cardinality({k \in DOMAIN o.dict : p.dict[k] # o.dict[k]}) <= 1
           /\ \A acc \in Accessors \ {last'.op} : View(p, acc) = View(o, acc)
  /\ last'.op = "bark" => heap' = heap

MutatorsChangeOneField == [][FrameStep]_vars

SnakeTailSetBesideDogReached ==
  \E i, j \in Slots :
    /\ IsSnake(heap[i])
    /\ JustSet(i, "tail")
    /\ TailOf(heap[i]) = "must be dead"
    /\ ParentTail(heap[i]) = "has"
    /\ Venom(heap[i]) = "is"
    /\ heap[j] # NoObj /\ heap[j].cls = "Dog" /\ Name(heap[j]) = "Fido"
====
